---- MODULE Spec2Model ----
(***************************************************************************)
(* A model of saber/calibrate.py: the batch driver (mp_saber, map_saber),  *)
(* the flow duration curve calculators (calc_fdc, calc_sfdc) and the two   *)
(* mapping engines (fdc_mapping, sfdc_mapping).                            *)
(*                                                                         *)
(* Numbers.  Flows are integers.  A percentile of a sample of n values at  *)
(* one of `steps` equally spaced ranks is a linear interpolation between   *)
(* two neighbouring order statistics with weights that are multiples of    *)
(* 1/(steps-1); the model stores it exactly, multiplied by steps-1.        *)
(* Exceedance probabilities 100*k/(steps-1) are stored as the tick k.      *)
(* A missing value (NaN) is the model value NaN.                           *)
(***************************************************************************)
EXTENDS Integers, Sequences, FiniteSets, TLC

VARIABLES
    \* ---- batch driver (mp_saber / map_saber) ----
    assign_df,     \* the assignment table: a sequence of rows [mid, asgn_mid, gid]
    n_processes,   \* the pool size handed to Pool
    gauge_files,   \* the gauge ids g for which <gauge_data>/<g>.csv exists
    rivids,        \* the reach ids present in the hindcast dataset (all, or all but reach 1)
    taskq,         \* the pool's task queue: indices of rows not yet handed out
    worker,        \* worker process -> its position in map_saber and its locals
    result,        \* row index -> what map_saber gave back for it
    invoked,       \* row index -> the mapping call map_saber made for it
    save_dir,      \* reach id -> state of the file saber_<reach id>.csv
    pool,          \* "running", "finished" (starmap returned) or "aborted"
    \* ---- one call of a function of the correction engine ----
    call,          \* the function called and its arguments
    frame,         \* the callee's local variables while it runs
    ret            \* what the call gave back: a value or a raised exception

batch_vars == <<assign_df, n_processes, gauge_files, rivids, taskq, worker,
                result, invoked, save_dir, pool>>
call_vars == <<call, frame, ret>>
vars == <<batch_vars, call_vars>>

----------------------------------------------------------------------------
(* Bounds of the model.                                                    *)

\* rows of the assignment table
NRows == 2
\* largest pool size tried
MaxProcs == 2

----------------------------------------------------------------------------
(* Batch driver.                                                           *)

Reaches == 1..NRows
Gauges == {"g1"}
\* a missing gauge id in the assignment table (None or NaN)
NoGauge == "NaN"

\* the exception classes the steps of map_saber can raise
FileNotFoundError == "FileNotFoundError"
ValueError == "ValueError"
KeyError == "KeyError"
ArithmeticError == "ArithmeticError"
OSError == "OSError"
Raisable == {FileNotFoundError, ValueError, KeyError, ArithmeticError, OSError}

\* a narrower handler than the code's: only a missing file is caught
except_FileNotFoundError(e) == e = FileNotFoundError

\* `except Exception as e` of map_saber: every one of these classes derives
\* from Exception
except_Exception(e) == e \in Raisable

\* map_saber's arguments to the mapping with the two simulated series exchanged
mapping_call_swapped(mid, asgn_mid, sim_a, sim_b, obs_df) ==
    IF asgn_mid = mid
    THEN [fn |-> "fdc_mapping", sim |-> sim_a, obs |-> obs_df, sim_b |-> 0,
          drop_outliers |-> FALSE, outlier_threshold |-> 0,
          fit_gumbel |-> FALSE, fit_range |-> <<0, 0>>]
    ELSE [fn |-> "sfdc_mapping", sim |-> sim_a, obs |-> obs_df, sim_b |-> sim_b,
          drop_outliers |-> TRUE, outlier_threshold |-> 3,
          fit_gumbel |-> TRUE, fit_range |-> <<5, 95>>]

\* The mapping map_saber calls.  sim_a holds the series of reach mid and sim_b
\* the series of reach asgn_mid; a series is named here by the id it was read
\* for.  `sim` is the first positional argument (sim_df of fdc_mapping,
\* sim_flow_a of sfdc_mapping), `sim_b` is sfdc_mapping's sim_flow_b.
mapping_call(mid, asgn_mid, sim_a, sim_b, obs_df) ==
    IF asgn_mid = mid
    THEN [fn |-> "fdc_mapping", sim |-> sim_a, obs |-> obs_df, sim_b |-> 0,
          drop_outliers |-> FALSE, outlier_threshold |-> 0,
          fit_gumbel |-> FALSE, fit_range |-> <<0, 0>>]
    ELSE [fn |-> "sfdc_mapping", sim |-> sim_b, obs |-> obs_df, sim_b |-> sim_a,
          drop_outliers |-> TRUE, outlier_threshold |-> 3,
          fit_gumbel |-> TRUE, fit_range |-> <<5, 95>>]

NoCall == [fn |-> "none", sim |-> 0, obs |-> NoGauge, sim_b |-> 0,
           drop_outliers |-> FALSE, outlier_threshold |-> 0,
           fit_gumbel |-> FALSE, fit_range |-> <<0, 0>>]

Idle == [pc |-> "idle", row |-> 0, obs_df |-> NoGauge, sim_a |-> 0, sim_b |-> 0,
         exc |-> "none"]

Row(w) == assign_df[worker[w].row]

\* Row i is the row of reach i (reach ids are the table's key); it is assigned
\* to itself or to the next reach, and to a gauge or to none.
AssignmentTables ==
    {t \in [1..NRows -> [mid : Reaches, asgn_mid : Reaches, gid : Gauges \cup {NoGauge}]] :
        \A i \in 1..NRows : /\ t[i].mid = i
                            /\ t[i].asgn_mid \in {i, (i % NRows) + 1}}

BatchInit ==
    /\ assign_df \in AssignmentTables
    /\ n_processes \in 1..MaxProcs
    /\ gauge_files \in SUBSET Gauges
    /\ rivids \in {Reaches, Reaches \ {1}}
    /\ taskq = [i \in 1..NRows |-> i]
    /\ worker = [w \in 1..n_processes |-> Idle]
    /\ result = [i \in 1..NRows |-> "pending"]
    /\ invoked = [i \in 1..NRows |-> NoCall]
    /\ save_dir = [r \in Reaches |-> "absent"]
    /\ pool = "running"
    /\ call = [fn |-> "none"]
    /\ frame = <<>>
    /\ ret = <<>>

\* a worker process of the pool takes the next task: map_saber(*row)
Dispatch(w) ==
    /\ pool = "running"
    /\ worker[w].pc = "idle"
    /\ taskq # <<>>
    /\ worker' = [worker EXCEPT ![w] = [Idle EXCEPT !.pc = "check_gid", !.row = Head(taskq)]]
    /\ taskq' = Tail(taskq)
    /\ UNCHANGED <<assign_df, n_processes, gauge_files, rivids, result, invoked, save_dir, pool>>
    /\ UNCHANGED call_vars

Raise(w, e) == worker' = [worker EXCEPT ![w].pc = "except", ![w].exc = e]

Return(w, value) ==
    /\ result' = [result EXCEPT ![worker[w].row] = value]
    /\ worker' = [worker EXCEPT ![w] = Idle]

\* lines 74-76: no gauge assigned, return
CheckGid(w) ==
    /\ pool = "running"
    /\ worker[w].pc = "check_gid"
    /\ IF Row(w).gid = NoGauge
       THEN Return(w, "None")
       ELSE /\ worker' = [worker EXCEPT ![w].pc = "read_obs"]
            /\ UNCHANGED result
    /\ UNCHANGED <<assign_df, n_processes, gauge_files, rivids, taskq, invoked, save_dir, pool>>
    /\ UNCHANGED call_vars

\* lines 79-82: the missing file is only logged; read_csv then raises.  A file
\* that exists may still be malformed (to_datetime raises ValueError).
ReadObs(w) ==
    /\ pool = "running"
    /\ worker[w].pc = "read_obs"
    /\ IF Row(w).gid \notin gauge_files
       THEN Raise(w, FileNotFoundError)
       ELSE \E malformed \in BOOLEAN :
               IF malformed
               THEN Raise(w, ValueError)
               ELSE worker' = [worker EXCEPT ![w].pc = "read_sim", ![w].obs_df = Row(w).gid]
    /\ UNCHANGED <<assign_df, n_processes, gauge_files, rivids, taskq, result, invoked, save_dir, pool>>
    /\ UNCHANGED call_vars

\* lines 85-92: a reach that is not in the dataset selects no column, and the
\* one-column DataFrame cannot be built from it (ValueError)
ReadSim(w) ==
    /\ pool = "running"
    /\ worker[w].pc = "read_sim"
    /\ IF Row(w).mid \notin rivids
       THEN Raise(w, ValueError)
       ELSE IF Row(w).asgn_mid # Row(w).mid
            THEN IF Row(w).asgn_mid \notin rivids
                 THEN Raise(w, ValueError)
                 ELSE worker' = [worker EXCEPT ![w].pc = "mapping",
                                               ![w].sim_a = Row(w).mid,
                                               ![w].sim_b = Row(w).asgn_mid]
            ELSE worker' = [worker EXCEPT ![w].pc = "mapping", ![w].sim_a = Row(w).mid]
    /\ UNCHANGED <<assign_df, n_processes, gauge_files, rivids, taskq, result, invoked, save_dir, pool>>
    /\ UNCHANGED call_vars

\* lines 94-101: the mapping runs and returns corrected_df, or raises (a
\* numerical failure, a configuration error, a missing column)
Mapping(w) ==
    /\ pool = "running"
    /\ worker[w].pc = "mapping"
    /\ invoked' = [invoked EXCEPT ![worker[w].row] =
            mapping_call(Row(w).mid, Row(w).asgn_mid,
                         worker[w].sim_a, worker[w].sim_b, worker[w].obs_df)]
    /\ \E outcome \in {"ok", ArithmeticError, ValueError, KeyError} :
           IF outcome = "ok"
           THEN worker' = [worker EXCEPT ![w].pc = "to_csv"]
           ELSE Raise(w, outcome)
    /\ UNCHANGED <<assign_df, n_processes, gauge_files, rivids, taskq, result, save_dir, pool>>
    /\ UNCHANGED call_vars

\* line 104: to_csv opens saber_<mid>.csv for writing, which creates the file
ToCsvOpen(w) ==
    /\ pool = "running"
    /\ worker[w].pc = "to_csv"
    /\ \E opened \in BOOLEAN :
           IF opened
           THEN /\ save_dir' = [save_dir EXCEPT ![Row(w).mid] = "partial"]
                /\ worker' = [worker EXCEPT ![w].pc = "writing"]
           ELSE /\ Raise(w, OSError)
                /\ UNCHANGED save_dir
    /\ UNCHANGED <<assign_df, n_processes, gauge_files, rivids, taskq, result, invoked, pool>>
    /\ UNCHANGED call_vars

\* line 104, continued: the rows are written and the file closed, or a write
\* fails and the exception leaves what was written so far on disk
ToCsvWrite(w) ==
    /\ pool = "running"
    /\ worker[w].pc = "writing"
    /\ \E written \in BOOLEAN :
           IF written
           THEN /\ save_dir' = [save_dir EXCEPT ![Row(w).mid] = "complete"]
                /\ worker' = [worker EXCEPT ![w].pc = "return_df"]
           ELSE /\ Raise(w, OSError)
                /\ UNCHANGED save_dir
    /\ UNCHANGED <<assign_df, n_processes, gauge_files, rivids, taskq, result, invoked, pool>>
    /\ UNCHANGED call_vars

\* line 105
ReturnDf(w) ==
    /\ pool = "running"
    /\ worker[w].pc = "return_df"
    /\ Return(w, "corrected_df")
    /\ UNCHANGED <<assign_df, n_processes, gauge_files, rivids, taskq, invoked, save_dir, pool>>
    /\ UNCHANGED call_vars

\* lines 107-110: the handler logs and returns None.  An exception the handler
\* does not catch leaves map_saber; the pool hands it to starmap, which raises
\* it in mp_saber, and leaving the `with Pool` block terminates the workers.
Except(w) ==
    /\ pool = "running"
    /\ worker[w].pc = "except"
    /\ IF except_Exception(worker[w].exc)
       THEN /\ Return(w, "None")
            /\ UNCHANGED pool
       ELSE /\ Return(w, "raised")
            /\ pool' = "aborted"
    /\ UNCHANGED <<assign_df, n_processes, gauge_files, rivids, taskq, invoked, save_dir>>
    /\ UNCHANGED call_vars

\* lines 46-54: starmap returns once every task has returned
Finish ==
    /\ pool = "running"
    /\ \A i \in 1..NRows : result[i] \in {"None", "corrected_df"}
    /\ pool' = "finished"
    /\ UNCHANGED <<assign_df, n_processes, gauge_files, rivids, taskq, worker, result, invoked, save_dir>>
    /\ UNCHANGED call_vars

BatchNext ==
    \/ \E w \in DOMAIN worker : Dispatch(w)
    \/ \E w \in DOMAIN worker : CheckGid(w)
    \/ \E w \in DOMAIN worker : ReadObs(w)
    \/ \E w \in DOMAIN worker : ReadSim(w)
    \/ \E w \in DOMAIN worker : Mapping(w)
    \/ \E w \in DOMAIN worker : ToCsvOpen(w)
    \/ \E w \in DOMAIN worker : ToCsvWrite(w)
    \/ \E w \in DOMAIN worker : ReturnDf(w)
    \/ \E w \in DOMAIN worker : Except(w)
    \/ Finish

SpecBatch == BatchInit /\ [][BatchNext]_vars

----------------------------------------------------------------------------
(* The correction engine: values and helpers.                              *)

\* np.nan: a missing flow.  Every operator tests for it before computing.
NaN == 0 - 1000000

\* steps=201, the default of calc_fdc
DefaultSteps == 201

\* largest flow value of a sample
MaxFlow == 2
\* longest sample handed to calc_fdc and calc_sfdc
MaxLen == 3

RECURSIVE SelectNotNaN(_)
\* the non-missing values of a sample, in their order (nanpercentile, dropna)
SelectNotNaN(flows) ==
    IF flows = <<>> THEN <<>>
    ELSE IF Head(flows) = NaN THEN SelectNotNaN(Tail(flows))
         ELSE <<Head(flows)>> \o SelectNotNaN(Tail(flows))

\* an array whose elements have been computed (a sequence written as a
\* function is otherwise recomputed at every use)
np_array(s) == s \o <<>>

\* the order of a stable ascending sort: by key, and by position among equal
\* keys
Before(a, b) == a.k < b.k \/ (a.k = b.k /\ a.i < b.i)

\* stable ascending sort of a sequence of records by their field k
\* (np.argsort(kind="mergesort"), np.sort, DataFrame.sort_index).  Each
\* element is tagged with its position, which makes the order total; the
\* elements are handed over last to first, the order in which a curve that
\* descends needs the fewest comparisons.
StableSort(s) ==
    LET n == Len(s)
        tagged == np_array([r \in 1..n |->
                     [k |-> s[n + 1 - r].k, i |-> n + 1 - r, v |-> s[n + 1 - r]]])
        sorted == SortSeq(tagged, Before)
    IN  np_array([r \in 1..n |-> sorted[r].v])

\* np.sort of a sample of numbers
SortValues(vals) ==
    LET s == StableSort(np_array([i \in 1..Len(vals) |-> [k |-> vals[i]]]))
    IN  np_array([i \in 1..Len(vals) |-> s[i].k])

\* np.nanpercentile(flows, q) for q = 100 * tick / D, times D, given the
\* sorted non-missing values a of the sample: the linear interpolation
\* between the two order statistics around position q/100*(n-1); NaN when
\* the sample has no value
percentile_of_sorted(a, tick, D) ==
    LET n == Len(a)
        pos == tick * (n - 1)
        lo == pos \div D
        r == pos % D
    IN  IF n = 0 THEN NaN
        ELSE IF r = 0 THEN a[lo + 1] * D
        ELSE a[lo + 1] * (D - r) + a[lo + 2] * r

nanpercentile(flows, tick, D) ==
    percentile_of_sorted(SortValues(SelectNotNaN(flows)), tick, D)

\* calc_fdc: row i has the exceedance probability exceed_prob[i] =
\* linspace(100, 0, steps)[i], stored as the tick steps - i (of steps - 1), and
\* the flow np.nanpercentile(flows, exceed_prob)[i], stored times steps - 1
calc_fdc(flows, steps) ==
    LET a == SortValues(SelectNotNaN(flows))
    IN  np_array([i \in 1..steps |->
            [p |-> steps - i, q |-> percentile_of_sorted(a, steps - i, steps - 1)]])

----------------------------------------------------------------------------
(* One call of calc_fdc.                                                   *)

Pending == [status |-> "pending"]
Returned(v) == [status |-> "returned", value |-> v]
Raised(e) == [status |-> "raised", exc |-> e]

\* the batch driver is not running
BatchOff ==
    /\ assign_df = <<>>
    /\ n_processes = 0
    /\ gauge_files = {}
    /\ rivids = {}
    /\ taskq = <<>>
    /\ worker = <<>>
    /\ result = <<>>
    /\ invoked = <<>>
    /\ save_dir = <<>>
    /\ pool = "off"

RECURSIVE SeqsUpTo(_, _)
\* the sequences over S of length at most n
SeqsUpTo(S, n) ==
    IF n = 0 THEN {<<>>}
    ELSE LET shorter == SeqsUpTo(S, n - 1)
         IN  shorter \cup {Append(q, x) : q \in shorter, x \in S}

Samples == SeqsUpTo((0..MaxFlow) \cup {NaN}, MaxLen)
StepChoices == {2, 3, 5, DefaultSteps}

FdcInit ==
    /\ BatchOff
    /\ \E flows \in Samples, steps \in StepChoices :
          call = [fn |-> "calc_fdc", flows |-> flows, steps |-> steps]
    /\ frame = <<>>
    /\ ret = Pending

CalcFdc ==
    /\ call.fn = "calc_fdc"
    /\ ret = Pending
    /\ ret' = Returned(calc_fdc(call.flows, call.steps))
    /\ UNCHANGED <<call, frame>>
    /\ UNCHANGED batch_vars

FdcNext == CalcFdc

SpecFdc == FdcInit /\ [][FdcNext]_vars

----------------------------------------------------------------------------
(* calc_sfdc and one call of it.                                           *)

\* A float that is a quotient is kept as the pair of its operands: num/den.
\* As in IEEE arithmetic x/0 is inf for x > 0, -inf for x < 0 and nan for
\* x = 0, and a quotient with a missing operand is nan.
np_divide(a, b) ==
    IF a = NaN \/ b = NaN THEN [num |-> 0, den |-> 0] ELSE [num |-> a, den |-> b]

np_nan == [num |-> 0, den |-> 0]
IsNan(x) == x.den = 0 /\ x.num = 0
IsPosInf(x) == x.den = 0 /\ x.num > 0
IsFinite(x) == x.den # 0

\* DataFrame.replace(np.inf, np.nan): a value equal to +inf becomes nan
replace_inf(x) == IF IsPosInf(x) THEN np_nan ELSE x

\* calc_sfdc: a DataFrame with the index of sim_fdc (named p_exceed) and the
\* one column `scalars`; the rows whose scalar is nan after the replacement
\* are dropped
calc_sfdc(sim_fdc, obs_fdc) ==
    LET divided == [i \in 1..Len(sim_fdc) |->
                       [p |-> sim_fdc[i].p,
                        scalars |-> replace_inf(np_divide(sim_fdc[i].q, obs_fdc[i].q))]]
        notna(row) == ~IsNan(row.scalars)
    IN  [index_name |-> "p_exceed",
         columns |-> {"scalars"},
         rows |-> SelectSeq(divided, notna)]

\* simulated flows may be negative: nothing checks them (line 348)
SimSamples == SeqsUpTo(((0 - MaxFlow)..MaxFlow) \cup {NaN}, MaxLen)
SfdcSteps == {2, 3}

SfdcInit ==
    /\ BatchOff
    /\ \E sim \in SimSamples, obs \in Samples, steps \in SfdcSteps :
          call = [fn |-> "calc_sfdc",
                  sim_fdc |-> calc_fdc(sim, steps),
                  obs_fdc |-> calc_fdc(obs, steps)]
    /\ frame = <<>>
    /\ ret = Pending

CalcSfdc ==
    /\ call.fn = "calc_sfdc"
    /\ ret = Pending
    /\ ret' = Returned(calc_sfdc(call.sim_fdc, call.obs_fdc))
    /\ UNCHANGED <<call, frame>>
    /\ UNCHANGED batch_vars

SfdcNext == CalcSfdc

SpecSfdc == SfdcInit /\ [][SfdcNext]_vars

----------------------------------------------------------------------------
(* Time series and the interpolator.                                       *)

\* A time series (a DataFrame with a datetime index and one column of flows)
\* is a sequence of rows [t, q] with t a date written yyyymmdd.
\* years, months of a year and days of a month that the calendar of the model has
NYears == 2
NMonths == 2
NDays == 1

Date(y, m, d) == (1999 + y) * 10000 + m * 100 + d

\* DatetimeIndex.month
month_of(t) == (t \div 100) % 100

\* the dates of the model's calendar, in chronological order
Calendar ==
    SortValues(
        LET ds == {Date(y, m, d) : y \in 1..NYears, m \in 1..NMonths,
                                   d \in 1..NDays}
            RECURSIVE AsSeq(_)
            AsSeq(S) == IF S = {} THEN <<>>
                        ELSE LET x == CHOOSE x \in S : TRUE
                             IN  <<x>> \o AsSeq(S \ {x})
        IN  AsSeq(ds))

RECURSIVE SeriesOver(_, _)
\* the series whose index is a chronological subsequence of the dates and
\* whose flows are drawn from V
SeriesOver(dates, V) ==
    IF dates = <<>> THEN {<<>>}
    ELSE LET rest == SeriesOver(Tail(dates), V)
         IN  rest \cup {<<[t |-> Head(dates), q |-> v]>> \o r : v \in V, r \in rest}

Values(df) == [i \in 1..Len(df) |-> df[i].q]
Index(df) == [i \in 1..Len(df) |-> df[i].t]

\* df[df.index.month == month].dropna()
month_dropna(df, month) ==
    LET keep(row) == month_of(row.t) = month /\ row.q # NaN
    IN  SelectSeq(df, keep)

\* sorted(df.index.month.unique())
unique_months(df) ==
    LET present == {month_of(df[i].t) : i \in 1..Len(df)}
        RECURSIVE Ascending(_)
        Ascending(S) == IF S = {} THEN <<>>
                        ELSE LET lo == CHOOSE x \in S : \A y \in S : x <= y
                             IN  <<lo>> \o Ascending(S \ {lo})
    IN  Ascending(present)

\* interpolate.interp1d(x, y, kind='nearest', fill_value='extrapolate'): the
\* points are sorted by x with a stable sort; the interpolator keeps them
interp1d_nearest(x, y) ==
    [kind |-> "nearest",
     xy |-> StableSort(np_array([i \in 1..Len(x) |-> [k |-> x[i], v |-> y[i]]]))]

\* Calling a nearest interpolator: x_bds are the midpoints of neighbouring
\* sorted x; the index is searchsorted(x_bds, x_new, side='left'), the number
\* of midpoints below x_new (NaN sorts after every midpoint), clipped to the
\* last point; the value is the y of that point.
interp_nearest(f, x_new) ==
    LET n == Len(f.xy)
        below == IF x_new = NaN THEN n - 1
                 ELSE Cardinality({j \in 1..(n - 1) : f.xy[j].k + f.xy[j + 1].k < 2 * x_new})
    IN  f.xy[below + 1].v

----------------------------------------------------------------------------
(* fdc_mapping.                                                            *)

\* a flow read off a curve of `steps` steps, as a float: the curve stores it
\* times steps - 1
AsFloat(q, steps) == IF q = NaN THEN np_nan ELSE [num |-> q, den |-> steps - 1]

\* lines 128-140, one month: the dates of the month's non-missing simulated
\* rows, and for each of them to_flow(to_prob(flow)), where to_prob maps the
\* flows of the month's simulated curve to their probabilities and to_flow the
\* probabilities of the month's observed curve to its flows
fdc_mapping_month(sim_df, obs_df, month) ==
    LET month_sim == month_dropna(sim_df, month)
        month_obs == month_dropna(obs_df, month)
        month_sim_fdc == calc_fdc(Values(month_sim), DefaultSteps)
        month_obs_fdc == calc_fdc(Values(month_obs), DefaultSteps)
        to_prob == interp1d_nearest([i \in 1..DefaultSteps |-> month_sim_fdc[i].q],
                                    [i \in 1..DefaultSteps |-> month_sim_fdc[i].p])
        to_flow == interp1d_nearest([i \in 1..DefaultSteps |-> month_obs_fdc[i].p],
                                    [i \in 1..DefaultSteps |-> month_obs_fdc[i].q])
    IN  [dates |-> Index(month_sim),
         values |-> [i \in 1..Len(month_sim) |->
                        AsFloat(interp_nearest(to_flow,
                                    interp_nearest(to_prob, month_sim[i].q * (DefaultSteps - 1))),
                                DefaultSteps)]]

\* line 144: the q_sim column is the input's flows in the input's order
q_sim_column(sim_df, dates) == Values(sim_df)

\* .sort_index() of a frame whose rows are [t, ...]
sort_index(rows) ==
    LET s == StableSort(np_array([i \in 1..Len(rows) |-> [k |-> rows[i].t, v |-> rows[i]]]))
    IN  np_array([i \in 1..Len(rows) |-> s[i].v])

\* The simulated series handed to fdc_mapping: any rows of the calendar, with
\* flows that may be missing.  The observed series: a record with a different
\* flow on every date of the calendar, whole or with one date missing.
SimSeries == SeriesOver(Calendar, (1..MaxFlow) \cup {NaN})
ObsRecord == [i \in 1..Len(Calendar) |-> [t |-> Calendar[i], q |-> i]]
ObsSeries ==
    {ObsRecord} \cup
    {SelectSeq(ObsRecord, LAMBDA row : row.t # Calendar[i]) : i \in 1..Len(Calendar)}

FdcMapInit ==
    /\ BatchOff
    /\ \E sim_df \in SimSeries, obs_df \in ObsSeries :
          call = [fn |-> "fdc_mapping", sim_df |-> sim_df, obs_df |-> obs_df]
    /\ frame = <<>>
    /\ ret = Pending

\* lines 123-126
FdcMapEnter ==
    /\ call.fn = "fdc_mapping"
    /\ frame = <<>>
    /\ ret = Pending
    /\ frame' = [months |-> unique_months(call.sim_df), dates |-> <<>>, values |-> <<>>]
    /\ UNCHANGED <<call, ret>>
    /\ UNCHANGED batch_vars

\* lines 126-140: one pass of the loop over the months
FdcMapMonth ==
    /\ call.fn = "fdc_mapping"
    /\ frame # <<>>
    /\ ret = Pending
    /\ frame.months # <<>>
    /\ LET m == fdc_mapping_month(call.sim_df, call.obs_df, Head(frame.months))
       IN  frame' = [months |-> Tail(frame.months),
                     dates |-> frame.dates \o m.dates,
                     values |-> frame.values \o m.values]
    /\ UNCHANGED <<call, ret>>
    /\ UNCHANGED batch_vars

\* lines 142-145: the DataFrame constructor needs every column to be as long
\* as the index
FdcMapReturn ==
    /\ call.fn = "fdc_mapping"
    /\ frame # <<>>
    /\ ret = Pending
    /\ frame.months = <<>>
    /\ LET col == q_sim_column(call.sim_df, frame.dates)
       IN  IF Len(frame.values) # Len(frame.dates) \/ Len(col) # Len(frame.dates)
           THEN ret' = Raised(ValueError)
           ELSE ret' = Returned(sort_index(
                    [i \in 1..Len(frame.dates) |->
                        [t |-> frame.dates[i], q_mod |-> frame.values[i], q_sim |-> col[i]]]))
    /\ UNCHANGED <<call, frame>>
    /\ UNCHANGED batch_vars

FdcMapNext ==
    \/ FdcMapEnter
    \/ FdcMapMonth
    \/ FdcMapReturn

SpecFdcMap == FdcMapInit /\ [][FdcMapNext]_vars

----------------------------------------------------------------------------
(* sfdc_mapping.                                                           *)

TypeError == "TypeError"

\* an argument that is None is the empty tuple, a given value v is <<v>>
None == <<>>

RECURSIVE Sum(_)
Sum(vals) == IF vals = <<>> THEN 0 ELSE Head(vals) + Sum(Tail(vals))

\* _drop_outliers_by_zscore: the rows whose |z| is below the threshold, where
\* z = (x - mean) / std over the whole sample (stats.zscore, ddof = 0).  With
\* n values of sum S and sum of squares Q, |z| < num/den is
\* (n*x - S)^2 * den^2 < num^2 * (n*Q - S^2).  A sample with a missing value,
\* or with std = 0, has only nan z-scores, and no comparison with nan holds.
drop_outliers_by_zscore(df, threshold) ==
    LET x == Values(df)
        n == Len(x)
        S == Sum(x)
        Q == Sum([i \in 1..n |-> x[i] * x[i]])
        anynan == \E i \in 1..n : x[i] = NaN
        keep(row) ==
            /\ ~anynan
            /\ (n * row.q - S) * (n * row.q - S) * threshold.den * threshold.den
                  < threshold.num * threshold.num * (n * Q - S * S)
    IN  SelectSeq(df, keep)

\* _make_interpolator with the fill value tested by its truth (`if not
\* fill_value`) instead of `is None`: a fill value of 0 is refused
make_interpolator_falsy_fill(x, y, extrap, fill_value) ==
    IF extrap = "nearest"
    THEN IF Len(x) < 1 THEN Raised(ValueError) ELSE Returned(interp1d_nearest(x, y))
    ELSE IF extrap = "const" /\ (fill_value = None \/ fill_value = <<0>>)
    THEN Raised(ValueError)
    ELSE IF extrap \notin {"const", "linear", "average", "max", "maximum", "min", "minimum"}
    THEN Raised(ValueError)
    ELSE IF Len(x) < 1 THEN Raised(ValueError)
    ELSE Returned([kind |-> "linear",
                   xy |-> StableSort(np_array([i \in 1..Len(x) |-> [k |-> x[i], v |-> y[i]]])),
                   extrap |-> extrap,
                   fill_value |-> fill_value])

\* _make_interpolator: its two configuration errors, the interpolator of the
\* policy 'nearest', and for the other policies a linear interpolator that
\* keeps the policy for the values outside of x; interp1d itself refuses an
\* empty x
make_interpolator(x, y, extrap, fill_value) ==
    IF extrap = "nearest"
    THEN IF Len(x) < 1 THEN Raised(ValueError) ELSE Returned(interp1d_nearest(x, y))
    ELSE IF extrap = "const" /\ fill_value = None
    THEN Raised(ValueError)
    ELSE IF extrap \notin {"const", "linear", "average", "max", "maximum", "min", "minimum"}
    THEN Raised(ValueError)
    ELSE IF Len(x) < 1 THEN Raised(ValueError)
    ELSE Returned([kind |-> "linear",
                   xy |-> StableSort(np_array([i \in 1..Len(x) |-> [k |-> x[i], v |-> y[i]]])),
                   extrap |-> extrap,
                   fill_value |-> fill_value])

StatisticsError == "StatisticsError"
AttributeError == "AttributeError"

\* The statistics of the tail fit are computed in hundredths: a finite float
\* num/den is the integer floor(100 * num / den).
Centi(x) ==
    IF x.den > 0 THEN (x.num * 100) \div x.den
    ELSE (0 - x.num * 100) \div (0 - x.den)
FromCenti(c) == [num |-> c, den |-> 100]
np_pos_inf == [num |-> 1, den |-> 0]
np_neg_inf == [num |-> 0 - 1, den |-> 0]
IsNegInf(x) == x.den = 0 /\ x.num < 0

RECURSIVE sqrt_between(_, _, _)
\* the largest s in lo..hi with s * s <= v
sqrt_between(v, lo, hi) ==
    IF lo = hi THEN lo
    ELSE LET half == (lo + hi + 1) \div 2
         IN  IF half * half <= v THEN sqrt_between(v, half, hi)
             ELSE sqrt_between(v, lo, half - 1)

\* math.sqrt of a number of hundredths squared, in hundredths
math_sqrt(v) == sqrt_between(v, 0, 46340)

\* -np.log(-np.log(k/200)) for the ticks k = 1..199 of the exceedance
\* probability (k/2 percent), in hundredths, rounded
log_log_table ==
    <<
       0 - 167, 0 - 153, 0 - 144, 0 - 136, 0 - 131, 0 - 125, 0 - 121, 0 - 117, 0 - 113, 0 - 110,
       0 - 106, 0 - 103, 0 - 101, 0 - 98, 0 - 95, 0 - 93, 0 - 90, 0 - 88, 0 - 86, 0 - 83,
       0 - 81, 0 - 79, 0 - 77, 0 - 75, 0 - 73, 0 - 71, 0 - 69, 0 - 68, 0 - 66, 0 - 64,
       0 - 62, 0 - 61, 0 - 59, 0 - 57, 0 - 56, 0 - 54, 0 - 52, 0 - 51, 0 - 49, 0 - 48,
       0 - 46, 0 - 45, 0 - 43, 0 - 41, 0 - 40, 0 - 39, 0 - 37, 0 - 36, 0 - 34, 0 - 33,
       0 - 31, 0 - 30, 0 - 28, 0 - 27, 0 - 26, 0 - 24, 0 - 23, 0 - 21, 0 - 20, 0 - 19,
       0 - 17, 0 - 16, 0 - 14, 0 - 13, 0 - 12, 0 - 10, 0 - 9, 0 - 8, 0 - 6, 0 - 5,
       0 - 4, 0 - 2, 0 - 1, 1, 2, 3, 5, 6, 7, 9,
       10, 11, 13, 14, 16, 17, 18, 20, 21, 23,
       24, 25, 27, 28, 30, 31, 32, 34, 35, 37,
       38, 40, 41, 42, 44, 45, 47, 48, 50, 51,
       53, 55, 56, 58, 59, 61, 62, 64, 66, 67,
       69, 70, 72, 74, 76, 77, 79, 81, 82, 84,
       86, 88, 90, 92, 93, 95, 97, 99, 101, 103,
       105, 107, 109, 111, 113, 116, 118, 120, 122, 125,
       127, 129, 132, 134, 137, 139, 142, 145, 147, 150,
       153, 156, 159, 162, 165, 168, 171, 175, 178, 182,
       185, 189, 193, 197, 201, 206, 210, 215, 220, 225,
       230, 236, 242, 248, 255, 262, 270, 278, 287, 297,
       308, 320, 333, 349, 368, 390, 419, 460, 530
    >>

\* -np.log(-np.log(1 - (1 / (1 / (1 - (p / 100)))))): the argument of the
\* inner logarithm is p/100; at p = 0 it is log(0) = -inf and the value -inf,
\* at p = 100 it is log(1) = 0, -0.0, log(-0.0) = -inf and the value +inf; a
\* missing p gives nan
reduced_variate(p) ==
    IF p = NaN THEN np_nan
    ELSE IF p = 0 THEN np_neg_inf
    ELSE IF p = DefaultSteps - 1 THEN np_pos_inf
    ELSE FromCenti(log_log_table[p])

\* _solve_gumbel1 and line 406-407: y * std * .7797 + xbar - (.45 * std) for
\* the reduced variate y of p; std and xbar in hundredths.  inf * 0 is nan.
solve_gumbel1(std, xbar, p) ==
    LET y == reduced_variate(p)
    IN  IF IsNan(y) THEN np_nan
        ELSE IF ~IsFinite(y)
        THEN IF std = 0 THEN np_nan ELSE y
        ELSE FromCenti((((Centi(y) * std) \div 10) * 7797) \div 100000
                       + xbar - ((45 * std) \div 100))

\* outlier_vals[outlier_vals < 0] = 0: nan is not below 0
clamp_negative(x) ==
    IF IsNan(x) THEN x
    ELSE IF IsNegInf(x) THEN FromCenti(0)
    ELSE IF IsFinite(x) /\ Centi(x) < 0 THEN FromCenti(0)
    ELSE x

\* DataFrame.update: a value of the other frame that is nan is not taken
df_update(old, new) == IF IsNan(new) THEN old ELSE new

\* _fit_extreme_values_to_gumbel.  q_adjust is a sequence of floats, p_exceed
\* of ticks of the exceedance probability, fit_range a pair of percents.
\* statistics.mean refuses an empty sample and statistics.stdev a sample of
\* one value; on a sample with a value that is not finite stdev(data, xbar)
\* fails on the float it gets for the sum of squares (Python 3.11).
fit_extreme_values_to_gumbel(q_adjust, p_exceed, fit_range) ==
    LET D == DefaultSteps - 1
        n == Len(q_adjust)
        in_range(i) == /\ p_exceed[i] # NaN
                       /\ fit_range[1] * D <= 100 * p_exceed[i]
                       /\ 100 * p_exceed[i] <= fit_range[2] * D
        mid == {i \in 1..n : in_range(i)}
        mid_vals == SelectSeq(np_array([i \in 1..n |-> IF i \in mid THEN <<q_adjust[i]>> ELSE <<>>]),
                              LAMBDA v : v # <<>>)
        finite == \A i \in mid : IsFinite(q_adjust[i])
        centis == np_array([j \in 1..Len(mid_vals) |-> Centi(mid_vals[j][1])])
        xbar == Sum(centis) \div Len(centis)
        ss == Sum([j \in 1..Len(centis) |-> (centis[j] - xbar) * (centis[j] - xbar)])
        std == math_sqrt(ss \div (Len(centis) - 1))
        value(i) == IF i \in mid THEN q_adjust[i]
                    ELSE df_update(q_adjust[i],
                                   clamp_negative(solve_gumbel1(std, xbar, p_exceed[i])))
    IN  IF Cardinality(mid) < 2 THEN Raised(StatisticsError)
        ELSE IF ~finite THEN Raised(AttributeError)
        ELSE Returned(np_array([i \in 1..n |-> value(i)]))

\* qb_original / scalars for one flow and the scalar looked up for it
divide_by_scalar(qb, scalar) ==
    IF qb = NaN \/ IsNan(scalar) THEN np_nan
    ELSE [num |-> qb * scalar.den, den |-> scalar.num]

\* scalar_fdc[scalar_fdc['p_exceed'].between(lo, hi)]: 'p_exceed' has to be a
\* column of the frame; the ticks are of DefaultSteps - 1 = 100 percent
filter_scalar_fdc(scalar_fdc, filter_range) ==
    IF "p_exceed" \notin scalar_fdc.columns
    THEN Raised(KeyError)
    ELSE LET D == DefaultSteps - 1
             between(row) == /\ filter_range[1] * D <= 100 * row.p
                             /\ 100 * row.p <= filter_range[2] * D
         IN  Returned([scalar_fdc EXCEPT !.rows = SelectSeq(scalar_fdc.rows, between)])

\* lines 208-214: the call made for each month passes every option but
\* metadata, which takes its default
recursive_metadata(a) == FALSE

\* lines 219-262: sfdc_mapping with fix_seasonally=False, on the arguments a
sfdc_mapping_annual(a) ==
    LET D == DefaultSteps - 1
        sample(df) == IF a.drop_outliers
                      THEN Values(drop_outliers_by_zscore(df, a.outlier_threshold))
                      ELSE Values(df)
        sim_fdc_a == calc_fdc(sample(a.sim_flow_a), DefaultSteps)
        sim_fdc_b == calc_fdc(sample(a.sim_flow_b[1]), DefaultSteps)
        obs_fdc == calc_fdc(sample(a.obs_flow_a), DefaultSteps)
        unfiltered == calc_sfdc(sim_fdc_a, obs_fdc)
        filtered == IF a.filter_scalar_fdc
                    THEN filter_scalar_fdc(unfiltered, a.filter_range)
                    ELSE Returned(unfiltered)
        flow_to_percent ==
            make_interpolator([i \in 1..DefaultSteps |-> sim_fdc_b[i].q],
                              [i \in 1..DefaultSteps |-> sim_fdc_b[i].p],
                              a.extrapolate, a.fill_value)
        scalar_fdc == filtered.value.rows
        percent_to_scalar ==
            make_interpolator([i \in 1..Len(scalar_fdc) |-> scalar_fdc[i].p],
                              [i \in 1..Len(scalar_fdc) |-> scalar_fdc[i].scalars],
                              a.extrapolate, a.fill_value)
        sim_flow_b == a.sim_flow_b[1]
        n == Len(sim_flow_b)
        p_exceed == np_array([i \in 1..n |->
                        interp_nearest(flow_to_percent.value,
                            IF sim_flow_b[i].q = NaN THEN NaN ELSE sim_flow_b[i].q * D)])
        scalars == np_array([i \in 1..n |-> interp_nearest(percent_to_scalar.value, p_exceed[i])])
        qb_adjusted == np_array([i \in 1..n |-> divide_by_scalar(sim_flow_b[i].q, scalars[i])])
        fitted == IF a.fit_gumbel
                  THEN fit_extreme_values_to_gumbel(qb_adjusted, p_exceed, a.fit_range)
                  ELSE Returned(qb_adjusted)
        row(i) ==
            IF a.metadata
            THEN [t |-> sim_flow_b[i].t, q_mod |-> fitted.value[i], q_sim |-> sim_flow_b[i].q,
                  scalars |-> scalars[i], p_exceed |-> p_exceed[i]]
            ELSE [t |-> sim_flow_b[i].t, q_mod |-> fitted.value[i], q_sim |-> sim_flow_b[i].q]
    IN  IF a.sim_flow_b = None THEN Raised(TypeError)
        ELSE IF filtered.status = "raised" THEN filtered
        ELSE IF flow_to_percent.status = "raised" THEN flow_to_percent
        ELSE IF percent_to_scalar.status = "raised" THEN percent_to_scalar
        ELSE IF fitted.status = "raised" THEN fitted
        ELSE Returned([columns |-> IF a.metadata
                                   THEN {"q_mod", "q_sim", "scalars", "p_exceed"}
                                   ELSE {"q_mod", "q_sim"},
                       rows |-> np_array([i \in 1..n |-> row(i)])])

\* the rows of a series that fall in the given months
in_months(df, M) == SelectSeq(df, LAMBDA row : month_of(row.t) \in M)

\* The series handed to sfdc_mapping.  At location A the simulated record has
\* a flow on every date of the calendar and the observed record too (zero on
\* the first date); a series is a record restricted to some of the months.
\* At location B the simulated record is whole or lacks its first date, or
\* the argument is left out (None).
SimRecordA == [i \in 1..Len(Calendar) |-> [t |-> Calendar[i], q |-> 1 + (i % (MaxFlow + 1))]]
SimRecordB == [i \in 1..Len(Calendar) |-> [t |-> Calendar[i], q |-> 2 * i]]
ObsRecordA == [i \in 1..Len(Calendar) |-> [t |-> Calendar[i], q |-> i - 1]]
SimSeriesA == {in_months(SimRecordA, M) : M \in (SUBSET (1..NMonths)) \ {{}}}
ObsSeriesA == {in_months(ObsRecordA, M) : M \in SUBSET (1..NMonths)}
SimSeriesB == {SimRecordB, Tail(SimRecordB)}

\* the defaults of sfdc_mapping's options (lines 148-154)
Defaults ==
    [fix_seasonally |-> TRUE, empty_months |-> "skip",
     drop_outliers |-> FALSE, outlier_threshold |-> [num |-> 5, den |-> 2],
     filter_scalar_fdc |-> FALSE, filter_range |-> <<0, 80>>,
     extrapolate |-> "nearest", fill_value |-> None,
     fit_gumbel |-> FALSE, fit_range |-> <<10, 90>>,
     metadata |-> FALSE]

Options ==
    {[Defaults EXCEPT !.fix_seasonally = s, !.empty_months = e, !.drop_outliers = d,
                      !.filter_scalar_fdc = f, !.fit_gumbel = g, !.metadata = m] :
        s \in BOOLEAN, e \in {"skip", "fill"}, d \in BOOLEAN, f \in BOOLEAN,
        g \in BOOLEAN, m \in BOOLEAN}

SfdcMapInit ==
    /\ BatchOff
    /\ \E sim_flow_a \in SimSeriesA, obs_flow_a \in ObsSeriesA,
          sim_flow_b \in {None} \cup {<<b>> : b \in SimSeriesB}, o \in Options :
          call = [fn |-> "sfdc_mapping", sim_flow_a |-> sim_flow_a,
                  obs_flow_a |-> obs_flow_a, sim_flow_b |-> sim_flow_b,
                  fix_seasonally |-> o.fix_seasonally, empty_months |-> o.empty_months,
                  drop_outliers |-> o.drop_outliers, outlier_threshold |-> o.outlier_threshold,
                  filter_scalar_fdc |-> o.filter_scalar_fdc, filter_range |-> o.filter_range,
                  extrapolate |-> o.extrapolate, fill_value |-> o.fill_value,
                  fit_gumbel |-> o.fit_gumbel, fit_range |-> o.fit_range,
                  metadata |-> o.metadata]
    /\ frame = <<>>
    /\ ret = Pending

\* lines 193-196: fix_seasonally, the list of the months of sim_flow_a
SfdcSeasonalEnter ==
    /\ call.fn = "sfdc_mapping"
    /\ call.fix_seasonally
    /\ frame = <<>>
    /\ ret = Pending
    /\ frame' = [months |-> unique_months(call.sim_flow_a), monthly_results |-> <<>>]
    /\ UNCHANGED <<call, ret>>
    /\ UNCHANGED batch_vars

\* the arguments of the call made for one month (lines 198, 206-214)
month_call(a, month) ==
    [a EXCEPT !.sim_flow_a = month_dropna(a.sim_flow_a, month),
              !.obs_flow_a = month_dropna(a.obs_flow_a, month),
              !.sim_flow_b = <<month_dropna(a.sim_flow_b[1], month)>>,
              !.fix_seasonally = FALSE,
              !.metadata = recursive_metadata(a)]

\* lines 196-215: one pass of the loop over the months
SfdcMonth ==
    /\ call.fn = "sfdc_mapping"
    /\ call.fix_seasonally
    /\ frame # <<>>
    /\ ret = Pending
    /\ frame.months # <<>>
    /\ LET month == Head(frame.months)
           mon_obs_a == month_dropna(call.obs_flow_a, month)
           next == [frame EXCEPT !.months = Tail(frame.months)]
       IN  IF mon_obs_a = <<>>
           THEN IF call.empty_months = "skip"
                THEN frame' = next /\ UNCHANGED ret
                ELSE ret' = Raised(ValueError) /\ UNCHANGED frame
           ELSE IF call.sim_flow_b = None
           THEN ret' = Raised(TypeError) /\ UNCHANGED frame
           ELSE LET r == sfdc_mapping_annual(month_call(call, month))
                IN  IF r.status = "raised"
                    THEN ret' = r /\ UNCHANGED frame
                    ELSE /\ frame' = [next EXCEPT !.monthly_results = Append(@, r.value)]
                         /\ UNCHANGED ret
    /\ UNCHANGED call
    /\ UNCHANGED batch_vars

RECURSIVE ConcatRows(_)
ConcatRows(frames) ==
    IF frames = <<>> THEN <<>> ELSE Head(frames).rows \o ConcatRows(Tail(frames))

\* line 217: pd.concat refuses an empty list
SfdcConcat ==
    /\ call.fn = "sfdc_mapping"
    /\ call.fix_seasonally
    /\ frame # <<>>
    /\ ret = Pending
    /\ frame.months = <<>>
    /\ IF frame.monthly_results = <<>>
       THEN ret' = Raised(ValueError)
       ELSE ret' = Returned([columns |-> UNION {frame.monthly_results[i].columns :
                                                   i \in 1..Len(frame.monthly_results)},
                             rows |-> sort_index(ConcatRows(frame.monthly_results))])
    /\ UNCHANGED <<call, frame>>
    /\ UNCHANGED batch_vars

\* lines 219-262: fix_seasonally is False
SfdcAnnual ==
    /\ call.fn = "sfdc_mapping"
    /\ ~call.fix_seasonally
    /\ ret = Pending
    /\ ret' = sfdc_mapping_annual(call)
    /\ UNCHANGED <<call, frame>>
    /\ UNCHANGED batch_vars

SfdcMapNext ==
    \/ SfdcSeasonalEnter
    \/ SfdcMonth
    \/ SfdcConcat
    \/ SfdcAnnual

SpecSfdcMap == SfdcMapInit /\ [][SfdcMapNext]_vars

----------------------------------------------------------------------------
(* One call of _fit_extreme_values_to_gumbel.                              *)

\* the corrected flows and probabilities handed to it: whole flows up to
\* MaxFlow, at the probabilities 0, 5, 50, 95 and 100 percent
GumbelTicks == {0, 10, 100, 190, 200}
GumbelPoints == [q : {[num |-> v, den |-> 1] : v \in 0..MaxFlow}, p : GumbelTicks]
FitRanges == {<<10, 90>>, <<5, 95>>}

GumbelInit ==
    /\ BatchOff
    /\ \E points \in SeqsUpTo(GumbelPoints, MaxLen), fit_range \in FitRanges :
          call = [fn |-> "_fit_extreme_values_to_gumbel",
                  q_adjust |-> [i \in 1..Len(points) |-> points[i].q],
                  p_exceed |-> [i \in 1..Len(points) |-> points[i].p],
                  fit_range |-> fit_range]
    /\ frame = <<>>
    /\ ret = Pending

FitGumbel ==
    /\ call.fn = "_fit_extreme_values_to_gumbel"
    /\ ret = Pending
    /\ ret' = fit_extreme_values_to_gumbel(call.q_adjust, call.p_exceed, call.fit_range)
    /\ UNCHANGED <<call, frame>>
    /\ UNCHANGED batch_vars

GumbelNext == FitGumbel

SpecGumbel == GumbelInit /\ [][GumbelNext]_vars

----------------------------------------------------------------------------
(* One call of _drop_outliers_by_zscore.                                   *)

\* the frames handed to it: a sample of flows on the first dates of the
\* calendar
ZscoreFrames ==
    {[i \in 1..Len(s) |-> [t |-> Calendar[i], q |-> s[i]]] : s \in Samples}

\* the thresholds: 1, the default 2.5 of sfdc_mapping, and the 3 of
\* map_saber and of the function itself
Thresholds == {[num |-> 1, den |-> 1], [num |-> 5, den |-> 2], [num |-> 3, den |-> 1]}

ZscoreInit ==
    /\ BatchOff
    /\ \E df \in ZscoreFrames, threshold \in Thresholds :
          call = [fn |-> "_drop_outliers_by_zscore", df |-> df, threshold |-> threshold]
    /\ frame = <<>>
    /\ ret = Pending

DropOutliers ==
    /\ call.fn = "_drop_outliers_by_zscore"
    /\ ret = Pending
    /\ ret' = Returned(drop_outliers_by_zscore(call.df, call.threshold))
    /\ UNCHANGED <<call, frame>>
    /\ UNCHANGED batch_vars

ZscoreNext == DropOutliers

SpecZscore == ZscoreInit /\ [][ZscoreNext]_vars

----------------------------------------------------------------------------
(* One call of _make_interpolator.                                         *)

\* the policies handed to it: the ones the function tests for (lines 353-366)
\* and two it does not know
Policies ==
    {"nearest", "const", "linear", "average", "max", "maximum", "min", "minimum",
     "bogus", "Nearest"}

FillValues == {None, <<0>>, <<1>>}

\* x is a sample of flows, possibly empty, and y numbers its points
InterpInit ==
    /\ BatchOff
    /\ \E x \in SeqsUpTo(0..MaxFlow, MaxLen), extrap \in Policies, fill_value \in FillValues :
          call = [fn |-> "_make_interpolator", x |-> x, y |-> [i \in 1..Len(x) |-> i],
                  extrap |-> extrap, fill_value |-> fill_value]
    /\ frame = <<>>
    /\ ret = Pending

MakeInterpolator ==
    /\ call.fn = "_make_interpolator"
    /\ ret = Pending
    /\ ret' = make_interpolator(call.x, call.y, call.extrap, call.fill_value)
    /\ UNCHANGED <<call, frame>>
    /\ UNCHANGED batch_vars

InterpNext == MakeInterpolator

SpecInterp == InterpInit /\ [][InterpNext]_vars

----------------------------------------------------------------------------
(* Claims about the batch driver.                                          *)

Processed(i) == result[i] \in {"None", "corrected_df"}

\* C1: no failure while correcting one reach leaves map_saber: no task ever
\* ends by raising, the pool is never torn down, the batch can always take a
\* further step until starmap has returned, and when it has returned every row
\* of the table has been processed.
C1_FailureIsolated ==
    /\ pool # "aborted"
    /\ \A i \in 1..NRows : result[i] # "raised"
    /\ (pool = "running" => ENABLED BatchNext)
    /\ (pool = "finished" => \A i \in 1..NRows : Processed(i))

\* a finished batch in which one reach failed (it had a gauge, yet gave back
\* None) and another reach was corrected
C1_Witness ==
    /\ pool = "finished"
    /\ \E i, j \in 1..NRows :
          /\ assign_df[i].gid # NoGauge
          /\ result[i] = "None"
          /\ result[j] = "corrected_df"

\* C2: after the run, a file saber_<reach id>.csv, complete or partial,
\* exists only for the reaches whose correction succeeded.
C2_NoFileForFailedReach ==
    pool = "finished" =>
        \A i \in 1..NRows :
            save_dir[assign_df[i].mid] # "absent" => result[i] = "corrected_df"

\* C3: a record with a gauge id is mapped onto itself (fdc_mapping on its own
\* simulated series and the gauge's observed series) exactly when the reach is
\* its own assigned reach, and otherwise by sfdc_mapping with the assigned
\* reach's series as A, the reach's own series as B, outlier-drop on with
\* threshold 3 and the Gumbel fit on with range (5, 95); only the file named by
\* the reach id is written; a record without a gauge id loads and writes
\* nothing.
C3_Dispatch ==
    /\ \A i \in 1..NRows :
          LET r == assign_df[i] IN
          /\ invoked[i] # NoCall =>
                /\ r.gid # NoGauge
                /\ invoked[i].fn = (IF r.asgn_mid = r.mid THEN "fdc_mapping" ELSE "sfdc_mapping")
                /\ invoked[i].obs = r.gid
                /\ invoked[i].fn = "fdc_mapping" =>
                      /\ invoked[i].sim = r.mid
                /\ invoked[i].fn = "sfdc_mapping" =>
                      /\ invoked[i].sim = r.asgn_mid
                      /\ invoked[i].sim_b = r.mid
                      /\ invoked[i].drop_outliers
                      /\ invoked[i].outlier_threshold = 3
                      /\ invoked[i].fit_gumbel
                      /\ invoked[i].fit_range = <<5, 95>>
          /\ save_dir[r.mid] # "absent" => invoked[i] # NoCall
          /\ r.gid = NoGauge => /\ invoked[i] = NoCall
                                /\ save_dir[r.mid] = "absent"
    /\ \A w \in DOMAIN worker :
          (worker[w].row # 0 /\ Row(w).gid = NoGauge) =>
              /\ worker[w].obs_df = NoGauge
              /\ worker[w].sim_a = 0
              /\ worker[w].sim_b = 0

\* a transplanted reach corrected and saved under its own id, beside a record
\* without a gauge that gave back None
C3_Witness ==
    \E i, j \in 1..NRows :
        /\ assign_df[i].asgn_mid # assign_df[i].mid
        /\ invoked[i].fn = "sfdc_mapping"
        /\ save_dir[assign_df[i].mid] = "complete"
        /\ assign_df[j].gid = NoGauge
        /\ result[j] = "None"

----------------------------------------------------------------------------
(* Claims about calc_fdc.                                                  *)

\* C4: calc_fdc returns exactly `steps` rows keyed by exceedance probabilities
\* equally spaced from 100 down to 0; the flow at exceedance probability p is
\* the (100-p)-th percentile of the non-missing values, so the flow at
\* probability 100 is at most the flow at probability 0 and the flow never
\* increases as the probability increases.
C4_FdcIsExceedance ==
    ret.status = "returned" =>
        LET fdc == ret.value
            steps == call.steps
        IN  /\ Len(fdc) = steps
            /\ \A i \in 1..steps : fdc[i].p = steps - i
            /\ \A i \in 1..steps :
                  fdc[i].q = nanpercentile(call.flows, (steps - 1) - fdc[i].p, steps - 1)
            /\ fdc[1].q <= fdc[steps].q
            /\ \A i \in 1..(steps - 1) : fdc[i].q <= fdc[i + 1].q

----------------------------------------------------------------------------
(* Claims about calc_sfdc.                                                 *)

\* C5: the scalar curve holds no infinite entry (positive or negative) and no
\* NaN, every entry it keeps is sim/obs at its probability, and its index is a
\* subset of the index of the input curves.
C5_ScalarsFinite ==
    ret.status = "returned" =>
        LET rows == ret.value.rows IN
        \A j \in 1..Len(rows) :
            /\ IsFinite(rows[j].scalars)
            /\ \E i \in 1..Len(call.sim_fdc) :
                  /\ call.sim_fdc[i].p = rows[j].p
                  /\ rows[j].scalars = np_divide(call.sim_fdc[i].q, call.obs_fdc[i].q)

----------------------------------------------------------------------------
(* Claims about fdc_mapping.                                               *)

\* C9: for every simulated series fdc_mapping returns a series with exactly
\* the timestamp index of the input: one row per input timestamp, none
\* missing, none duplicated, in chronological order.
C9_SameIndex ==
    ret.status # "pending" =>
        /\ ret.status = "returned"
        /\ Index(ret.value) = Index(call.sim_df)

\* C10: every returned row is a consistent triple: its original-simulated-flow
\* is the input flow at its timestamp and its corrected-flow is the correction
\* of that same flow, for series of one year and of several years.
C10_RowsConsistent ==
    ret.status = "returned" =>
        \A i \in 1..Len(ret.value) :
            LET row == ret.value[i] IN
            \E j \in 1..Len(call.sim_df) :
                /\ call.sim_df[j].t = row.t
                /\ row.q_sim = call.sim_df[j].q
                /\ \E k \in 1..Len(fdc_mapping_month(call.sim_df, call.obs_df, month_of(row.t)).dates) :
                      LET m == fdc_mapping_month(call.sim_df, call.obs_df, month_of(row.t))
                      IN  m.dates[k] = row.t /\ m.values[k] = row.q_mod

----------------------------------------------------------------------------
(* Claims about sfdc_mapping.                                              *)

\* the months for which location A has observed data
months_observed(a) == {month \in 1..12 : month_dropna(a.obs_flow_a, month) # <<>>}

\* the rows of B that a seasonal call has to return: those of the months of
\* sim_flow_a for which A has observed data, in chronological order
rows_due(a) ==
    LET M == {month_of(a.sim_flow_a[i].t) : i \in 1..Len(a.sim_flow_a)} \cap months_observed(a)
    IN  Index(sort_index(SelectSeq(a.sim_flow_b[1],
                                   LAMBDA row : month_of(row.t) \in M /\ row.q # NaN)))

\* C6: a seasonal call (here: one that is given B and neither filters the
\* scalar curve, see C8, nor fits the tails, see C11) with empty_months =
\* 'skip' returns the months for which A has observed
\* data, sorted chronologically, and none of the others; with any other value
\* of empty_months it fails with a ValueError, whether or not a month lacks
\* observed data.
C6_EmptyMonths ==
    (call.fn = "sfdc_mapping" /\ call.fix_seasonally /\ ~call.filter_scalar_fdc
        /\ call.sim_flow_b # None /\ ~call.fit_gumbel
        /\ ret.status # "pending") =>
        IF call.empty_months = "skip"
        THEN ret.status = "returned" => Index(ret.value.rows) = rows_due(call)
        ELSE ret.status = "raised" /\ ret.exc = ValueError

\* C7: with metadata enabled the returned series has, for every row, the
\* scalar applied and the exceedance probability of the uncorrected flow
\* beside the two flows, for fix_seasonally false and true.
C7_Metadata ==
    (call.fn = "sfdc_mapping" /\ call.metadata /\ ret.status = "returned") =>
        /\ ret.value.columns = {"q_mod", "q_sim", "scalars", "p_exceed"}
        /\ \A i \in 1..Len(ret.value.rows) :
              DOMAIN ret.value.rows[i] = {"t", "q_mod", "q_sim", "scalars", "p_exceed"}

\* the entries of the scalar curve of a non-seasonal call whose exceedance
\* probability lies in the filter range
scalars_in_range(a) ==
    LET sfdc == calc_sfdc(calc_fdc(Values(a.sim_flow_a), DefaultSteps),
                          calc_fdc(Values(a.obs_flow_a), DefaultSteps)).rows
    IN  {sfdc[i].scalars : i \in {j \in 1..Len(sfdc) :
            /\ a.filter_range[1] * (DefaultSteps - 1) <= 100 * sfdc[j].p
            /\ 100 * sfdc[j].p <= a.filter_range[2] * (DefaultSteps - 1)}}

\* C8: a call with filter_scalar_fdc enabled succeeds (here: a non-seasonal
\* call without outlier-drop that succeeds without the filter and has scalars
\* in the range), and every scalar it applies is an entry of the scalar curve
\* whose probability lies in the filter range.
C8_FilterRange ==
    (call.fn = "sfdc_mapping" /\ call.filter_scalar_fdc /\ ~call.fix_seasonally
        /\ ~call.drop_outliers /\ ret.status # "pending"
        /\ sfdc_mapping_annual([call EXCEPT !.filter_scalar_fdc = FALSE]).status = "returned"
        /\ scalars_in_range(call) # {}) =>
        /\ ret.status = "returned"
        /\ call.metadata =>
              \A i \in 1..Len(ret.value.rows) :
                  ret.value.rows[i].scalars \in scalars_in_range(call)

----------------------------------------------------------------------------
(* Claims about the helpers of sfdc_mapping.                               *)

\* the z-score of the flow x in the sample of the frame df is a number and
\* its absolute value is above the threshold
zscore_exceeds(df, x, threshold) ==
    LET n == Len(df)
        S == Sum(Values(df))
        Q == Sum([i \in 1..n |-> df[i].q * df[i].q])
    IN  /\ \A i \in 1..n : df[i].q # NaN
        /\ n * Q - S * S > 0
        /\ (n * x - S) * (n * x - S) * threshold.den * threshold.den
              > threshold.num * threshold.num * (n * Q - S * S)

\* C13: _drop_outliers_by_zscore(df, threshold) returns exactly the rows of
\* df whose absolute z-score over the full sample does not exceed the
\* threshold, in their order and with their index: a row is dropped if and
\* only if its absolute z-score exceeds the threshold.
C13_DroppedIffExceeds ==
    (call.fn = "_drop_outliers_by_zscore" /\ ret # Pending) =>
        /\ ret.status = "returned"
        /\ ret.value = SelectSeq(call.df,
                          LAMBDA row : ~zscore_exceeds(call.df, row.q, call.threshold))

\* C14: _make_interpolator fails with a configuration error (ValueError) when
\* the policy is 'const' and no fill value is given, and when the policy is
\* not one the function recognizes; for every recognized policy with valid
\* arguments (a fill value for 'const', at least one point) it returns an
\* interpolator.
C14_ConfigurationErrors ==
    (call.fn = "_make_interpolator" /\ ret # Pending) =>
        LET recognized == call.extrap \in {"nearest", "const", "linear", "average",
                                            "max", "maximum", "min", "minimum"}
            const_without_fill == call.extrap = "const" /\ call.fill_value = None
        IN  /\ const_without_fill => ret = Raised(ValueError)
            /\ ~recognized => ret = Raised(ValueError)
            /\ (recognized /\ ~const_without_fill /\ Len(call.x) >= 1) =>
                   /\ ret.status = "returned"
                   /\ Len(ret.value.xy) = Len(call.x)

\* 'const' with the fill value 0 has returned an interpolator
C14_Witness ==
    /\ call.fn = "_make_interpolator"
    /\ call.extrap = "const"
    /\ call.fill_value = <<0>>
    /\ Len(call.x) >= 2
    /\ ret # Pending
    /\ ret.status = "returned"

\* the exceedance probability of point i of the call lies inside the trusted
\* range, bounds included
trusted(i) ==
    /\ call.fit_range[1] * (DefaultSteps - 1) <= 100 * call.p_exceed[i]
    /\ 100 * call.p_exceed[i] <= call.fit_range[2] * (DefaultSteps - 1)

\* C11: _fit_extreme_values_to_gumbel, given corrected flows whose exceedance
\* probabilities all fall inside the trusted range (bounds inclusive), returns
\* an array equal to its input, for every such input including very short
\* arrays.
C11_UnchangedInsideRange ==
    (/\ call.fn = "_fit_extreme_values_to_gumbel"
     /\ \A i \in 1..Len(call.p_exceed) : trusted(i)
     /\ ret # Pending) =>
        ret = Returned(call.q_adjust)

\* the corrected flows of the call's trusted points, in hundredths
trusted_flows ==
    LET tagged == [i \in 1..Len(call.q_adjust) |-> [i |-> i, q |-> call.q_adjust[i]]]
        picked == SelectSeq(tagged, LAMBDA r : trusted(r.i))
    IN  [j \in 1..Len(picked) |-> Centi(picked[j].q)]

\* the Gumbel estimate for point i of the call from the mean and the sample
\* standard deviation of the trusted flows (scale = std * 0.7797, location =
\* mean - 0.45 * std, return period = 1 / (1 - p / 100)), clamped below at zero
gumbel_estimate(i) ==
    LET n == Len(trusted_flows)
        mean == Sum(trusted_flows) \div n
        std == math_sqrt(Sum([j \in 1..n |-> (trusted_flows[j] - mean) * (trusted_flows[j] - mean)])
                            \div (n - 1))
        estimate == solve_gumbel1(std, mean, call.p_exceed[i])
    IN  IF IsNegInf(estimate) \/ (IsFinite(estimate) /\ Centi(estimate) < 0)
        THEN FromCenti(0)
        ELSE estimate

\* C12: after the Gumbel tail replacement every point whose exceedance
\* probability lies outside the trusted range holds the Gumbel estimate
\* computed from the in-range mean and standard deviation, clamped below at
\* zero, so that no replaced value is negative, and every point inside the
\* trusted range keeps its corrected value.
C12_TailsHoldGumbelEstimate ==
    (/\ call.fn = "_fit_extreme_values_to_gumbel"
     /\ ret # Pending
     /\ ret.status = "returned") =>
        \A i \in 1..Len(call.q_adjust) :
            IF trusted(i)
            THEN ret.value[i] = call.q_adjust[i]
            ELSE /\ ret.value[i] = gumbel_estimate(i)
                 /\ ~IsNegInf(ret.value[i])
                 /\ (IsFinite(ret.value[i]) => Centi(ret.value[i]) >= 0)

----------------------------------------------------------------------------
(* Claims about sfdc_mapping and its target series.                        *)

\* C15: sfdc_mapping called with only the simulated and observed series at
\* location A (sim_flow_b omitted) removes the bias from the simulated data at
\* A itself: it returns a corrected series for A's timestamps, the same result
\* as passing sim_flow_b equal to sim_flow_a, in seasonal and in non-seasonal
\* mode.
C15_OmittedBCorrectsA ==
    (call.fn = "sfdc_mapping" /\ call.sim_flow_b = None /\ ret # Pending) =>
        /\ ret.status = "returned"
        /\ \A i \in 1..Len(ret.value.rows) :
               \E j \in 1..Len(call.sim_flow_a) : ret.value.rows[i].t = call.sim_flow_a[j].t
        /\ (~call.fix_seasonally =>
               ret = sfdc_mapping_annual([call EXCEPT !.sim_flow_b = <<call.sim_flow_a>>]))

\* the corrected flow the mapping is to give value i of the target series B:
\* the value divided by the scalar found, on the scalar curve of A's simulated
\* and observed curves, at the value's exceedance probability on B's own
\* simulated curve; with outlier-drop the curves are built from the samples
\* without their outliers
expected_q_mod(i) ==
    LET D == DefaultSteps - 1
        B == call.sim_flow_b[1]
        sample(df) == IF call.drop_outliers
                      THEN Values(drop_outliers_by_zscore(df, call.outlier_threshold))
                      ELSE Values(df)
        fdc_b == calc_fdc(sample(B), DefaultSteps)
        curve == calc_sfdc(calc_fdc(sample(call.sim_flow_a), DefaultSteps),
                           calc_fdc(sample(call.obs_flow_a), DefaultSteps)).rows
        to_p == interp1d_nearest([k \in 1..DefaultSteps |-> fdc_b[k].q],
                                 [k \in 1..DefaultSteps |-> fdc_b[k].p])
        to_scalar == interp1d_nearest([k \in 1..Len(curve) |-> curve[k].p],
                                      [k \in 1..Len(curve) |-> curve[k].scalars])
        p == interp_nearest(to_p, IF B[i].q = NaN THEN NaN ELSE B[i].q * D)
    IN  divide_by_scalar(B[i].q, interp_nearest(to_scalar, p))

\* C16: in sfdc_mapping with fix_seasonally=false, given a target series B
\* and an observed record at A, every value of B yields exactly one output row
\* at its timestamp, also when outlier-drop is enabled, whose original flow is
\* that value and whose corrected flow (before any Gumbel replacement) is that
\* value divided by the scalar looked up at the value's exceedance probability
\* under B's own simulated curve.
C16_EveryValueOfBCorrected ==
    (/\ call.fn = "sfdc_mapping"
     /\ ~call.fix_seasonally
     /\ call.sim_flow_b # None
     /\ call.obs_flow_a # <<>>
     /\ ret # Pending) =>
        /\ ret.status = "returned"
        /\ Len(ret.value.rows) = Len(call.sim_flow_b[1])
        /\ \A i \in 1..Len(call.sim_flow_b[1]) :
               /\ ret.value.rows[i].t = call.sim_flow_b[1][i].t
               /\ ret.value.rows[i].q_sim = call.sim_flow_b[1][i].q
               /\ (~call.fit_gumbel => ret.value.rows[i].q_mod = expected_q_mod(i))

====
